---- MODULE Spec2Model ----
(***************************************************************************)
(* Model of package dice (tvarney/rand-table): the Dice specification, its *)
(* validating constructors New / NewExt, Validate, String, and the roll    *)
(* operations RollResults / RollRand / Roll over the Rand interface with   *)
(* its three implementations (stdRand, mockMaxRand, mockIterRand).         *)
(*                                                                         *)
(* Go's int is a fixed-width two's-complement integer whose arithmetic     *)
(* wraps around.  The model keeps that behaviour with a scaled-down width  *)
(* of IntBits bits; Results.Value is a *big.Int and is modelled by an      *)
(* unbounded integer.  A nil slice, a nil error and a nil pointer are the  *)
(* empty sequence.                                                         *)
(***************************************************************************)
EXTENDS Integers, Sequences, FiniteSets, TLC

VARIABLES d, args, op, err, str, total, res, panicked, iter, rnd, calls, prev

vars == <<d, args, op, err, str, total, res, panicked, iter, rnd, calls, prev>>

\* ------------------------------------------------------------------ bounds

\* width of the machine integer type int, scaled down
IntBits == 8

\* largest number of dice a modelled roll draws
MaxRoll == 3

\* stdRand outcomes modelled for Intn(n): 0 .. MaxFace-1 and n-1
MaxFace == 2

\* largest counter value a mockIterRand reaches in the model
MaxValue == 6

\* ------------------------------------------------------ machine integers

Modulus == 2 ^ IntBits

MaxInt == (2 ^ (IntBits - 1)) - 1

MinInt == 0 - (2 ^ (IntBits - 1))

\* two's-complement wrap-around of a mathematical integer into int
Wrap(x) == ((x - MinInt) % Modulus) + MinInt

\* a + b and a - b on int
IntAdd(a, b) == Wrap(a + b)

IntSub(a, b) == Wrap(a - b)

\* the argument values the constructors and struct literals are tried with
IntVals == {MinInt, MaxInt} \cup (-1 .. MaxRoll)

\* ------------------------------------------------------------ formatting

DigitChar(k) == <<"0", "1", "2", "3", "4", "5", "6", "7", "8", "9">>[k + 1]

RECURSIVE Dec(_)
Dec(n) == IF n < 10 THEN <<DigitChar(n)>>
          ELSE Dec(n \div 10) \o <<DigitChar(n % 10)>>

\* the %d verb of fmt: decimal digits, a leading minus for negatives
FmtInt(n) == IF n < 0 THEN <<"-">> \o Dec(0 - n) ELSE Dec(n)

\* ---------------------------------------------------------------- errors

ErrNumberTooLow(num) == <<"number of dice is too low: ">> \o FmtInt(num)

ErrSidesTooLow(num) == <<"number of sides is too low: ">> \o FmtInt(num)

ErrDropLowTooLow(num) ==
    <<"number of low dice to drop must be positive: ">> \o FmtInt(num)

ErrDropHighTooLow(num) ==
    <<"number of high dice to drop must be positive: ">> \o FmtInt(num)

ErrTooManyDropped(low, high, num) ==
    <<"too many dice dropped: ">> \o FmtInt(low) \o <<" + ">> \o FmtInt(high)
        \o <<" >= ">> \o FmtInt(num)

\* ------------------------------------------------------------------ Dice

Dice(num, sides, droplow, drophigh) ==
    [Number |-> num, Sides |-> sides, DropLow |-> droplow, DropHigh |-> drophigh]

\* Dice.Validate: the first failed check decides; <<>> is the nil error
Validate(x) ==
    IF x.Number < 1 THEN ErrNumberTooLow(x.Number)
    ELSE IF x.Sides <= 1 THEN ErrSidesTooLow(x.Sides)
    ELSE IF x.DropLow < 0 THEN ErrDropLowTooLow(x.DropLow)
    ELSE IF x.DropHigh < 0 THEN ErrDropHighTooLow(x.DropHigh)
    ELSE IF IntAdd(x.DropLow, x.DropHigh) >= x.Number
         THEN ErrTooManyDropped(x.DropLow, x.DropHigh, x.Number)
    ELSE <<>>

\* NewExt: (pointer, error); <<>> is the nil pointer
NewExt(num, sides, droplow, drophigh) ==
    LET x == Dice(num, sides, droplow, drophigh)
        e == Validate(x)
    IN  IF e # <<>> THEN [d |-> <<>>, err |-> e]
        ELSE [d |-> <<x>>, err |-> <<>>]

New(num, sides) == NewExt(num, sides, 0, 0)

\* a variant of String that writes the H suffix before the L suffix
StringHighFirst(x) ==
    IF x.DropLow > 0
    THEN IF x.DropHigh > 0
         THEN FmtInt(x.Number) \o <<"d">> \o FmtInt(x.Sides) \o <<"H">>
                  \o FmtInt(x.DropHigh) \o <<"L">> \o FmtInt(x.DropLow)
         ELSE FmtInt(x.Number) \o <<"d">> \o FmtInt(x.Sides) \o <<"L">>
                  \o FmtInt(x.DropLow)
    ELSE IF x.DropHigh > 0
         THEN FmtInt(x.Number) \o <<"d">> \o FmtInt(x.Sides) \o <<"H">>
                  \o FmtInt(x.DropHigh)
         ELSE FmtInt(x.Number) \o <<"d">> \o FmtInt(x.Sides)

\* Dice.String
String(x) ==
    IF x.DropLow > 0
    THEN IF x.DropHigh > 0
         THEN FmtInt(x.Number) \o <<"d">> \o FmtInt(x.Sides) \o <<"L">>
                  \o FmtInt(x.DropLow) \o <<"H">> \o FmtInt(x.DropHigh)
         ELSE FmtInt(x.Number) \o <<"d">> \o FmtInt(x.Sides) \o <<"L">>
                  \o FmtInt(x.DropLow)
    ELSE IF x.DropHigh > 0
         THEN FmtInt(x.Number) \o <<"d">> \o FmtInt(x.Sides) \o <<"H">>
                  \o FmtInt(x.DropHigh)
         ELSE FmtInt(x.Number) \o <<"d">> \o FmtInt(x.Sides)

\* ------------------------------------------------------------------ Rand

\* A Rand value: kind names the implementation, Value is the counter of a
\* mockIterRand, script the outcomes an unpredictable source is going to
\* deliver (the nondeterminism of rand.Intn, resolved when the roll starts).
Rand(kind, value, script) == [kind |-> kind, Value |-> value, script |-> script]

\* the outcomes of rand.Intn(n) the model distinguishes, all in [0, n)
StdOutcomes(n) == {v \in 0 .. (n - 1) : v < MaxFace \/ v = n - 1}

\* stdRand.Intn: the next outcome of the generator
stdRandIntn(r, n) == [v |-> Head(r.script), r |-> [r EXCEPT !.script = Tail(@)]]

\* mockMaxRand.Intn
mockMaxRandIntn(r, n) == [v |-> IntSub(n, 1), r |-> r]

\* a variant of mockIterRand.Intn that forgets to advance the counter
mockIterRandIntnStuck(r, n) == [v |-> r.Value % n, r |-> r]

\* mockIterRand.Intn (Value >= 0 and n > 0 wherever the model calls it, so
\* Go's truncated remainder is the mathematical one)
mockIterRandIntn(r, n) ==
    [v |-> r.Value % n, r |-> [r EXCEPT !.Value = IntAdd(@, 1)]]

\* the call r.Intn(n) through the Rand interface
Intn(r, n) ==
    CASE r.kind = "max" -> mockMaxRandIntn(r, n)
      [] r.kind = "iter" -> mockIterRandIntn(r, n)
      [] OTHER -> stdRandIntn(r, n)

\* ----------------------------------------------------------- RollResults

\* a variant of Face that keeps the zero-based outcome
FaceZeroBased(v) == v

\* the value of one die: r.Intn(d.Sides)+1
Face(v) == IntAdd(v, 1)

\* the loop  for i := 0; i < d.Number; i++ { Raw = append(Raw, r.Intn(Sides)+1) }
\* acc collects Raw, the calls made (bound n, outcome v) and the source
RECURSIVE DrawLoop(_, _, _)
DrawLoop(x, i, acc) ==
    IF i < x.Number
    THEN LET c == Intn(acc.r, x.Sides)
         IN  DrawLoop(x, i + 1,
                      [raw |-> Append(acc.raw, Face(c.v)),
                       calls |-> Append(acc.calls, [n |-> x.Sides, v |-> c.v]),
                       r |-> c.r])
    ELSE acc

\* insert v into the ascending sequence s
RECURSIVE Insert(_, _)
Insert(s, v) ==
    IF s = <<>> THEN <<v>>
    ELSE IF v < Head(s) THEN <<v>> \o s
    ELSE <<Head(s)>> \o Insert(Tail(s), v)

\* a variant of SortInts that leaves the slice in draw order
SortIntsNoop(s) == s

\* sort.Ints: the ascending arrangement of the values of s
RECURSIVE SortInts(_)
SortInts(s) == IF s = <<>> THEN <<>> ELSE Insert(SortInts(Tail(s)), Head(s))

\* whether the slice expression s[lo:hi] is within bounds (len = cap here:
\* Raw is made with capacity Number and exactly Number values are appended)
InBounds(s, lo, hi) == 0 <= lo /\ lo <= hi /\ hi <= Len(s)

\* the slice s[lo:hi], for bounds that are in range
Slice(s, lo, hi) == SubSeq(s, lo + 1, hi)

\* a variant of BigAdd that adds in the machine integer type
BigAddWrapping(a, b) == Wrap(a + b)

\* big.Int.Add: exact
BigAdd(a, b) == a + b

\* the loop  for _, v := range Kept { value = value.Add(value, big.NewInt(int64(v))) }
RECURSIVE SumLoop(_, _, _)
SumLoop(kept, i, value) ==
    IF i <= Len(kept) THEN SumLoop(kept, i + 1, BigAdd(value, kept[i]))
    ELSE value

\* a variant of Partition that keeps everything after the dropped prefix
PartitionKeepTail(x, raw) ==
    LET hi == IntSub(x.Number, x.DropHigh)
        okLow == x.DropLow > 0 => InBounds(raw, 0, x.DropLow)
        okHigh == x.DropHigh > 0 => InBounds(raw, hi, Len(raw))
        okKept == InBounds(raw, x.DropLow, hi)
    IN  IF okLow /\ okHigh /\ okKept
        THEN [panic |-> FALSE,
              DroppedLow |-> IF x.DropLow > 0 THEN Slice(raw, 0, x.DropLow) ELSE <<>>,
              DroppedHigh |-> IF x.DropHigh > 0 THEN Slice(raw, hi, Len(raw)) ELSE <<>>,
              Kept |-> Slice(raw, x.DropLow, Len(raw))]
        ELSE [panic |-> TRUE, DroppedLow |-> <<>>, DroppedHigh |-> <<>>,
              Kept |-> <<>>]

\* the three slice expressions of RollResults on the sorted Raw; panic tells
\* whether one of them is out of range (a run-time panic)
Partition(x, raw) ==
    LET hi == IntSub(x.Number, x.DropHigh)
        okLow == x.DropLow > 0 => InBounds(raw, 0, x.DropLow)
        okHigh == x.DropHigh > 0 => InBounds(raw, hi, Len(raw))
        okKept == InBounds(raw, x.DropLow, hi)
    IN  IF okLow /\ okHigh /\ okKept
        THEN [panic |-> FALSE,
              DroppedLow |-> IF x.DropLow > 0 THEN Slice(raw, 0, x.DropLow) ELSE <<>>,
              DroppedHigh |-> IF x.DropHigh > 0 THEN Slice(raw, hi, Len(raw)) ELSE <<>>,
              Kept |-> Slice(raw, x.DropLow, hi)]
        ELSE [panic |-> TRUE, DroppedLow |-> <<>>, DroppedHigh |-> <<>>,
              Kept |-> <<>>]

\* Dice.RollResults: out is <<Results>>, or <<>> when the roll panics; r is
\* the source afterwards and calls the Intn calls made
RollResults(x, r) ==
    LET loop == DrawLoop(x, 0, [raw |-> <<>>, calls |-> <<>>, r |-> r])
        raw == SortInts(loop.raw)
        part == Partition(x, raw)
    IN  [out |-> IF part.panic THEN <<>>
                 ELSE <<[Value |-> SumLoop(part.Kept, 1, 0),
                         DroppedLow |-> part.DroppedLow,
                         DroppedHigh |-> part.DroppedHigh,
                         Kept |-> part.Kept,
                         Raw |-> raw]>>,
         r |-> loop.r,
         calls |-> loop.calls]

\* Dice.RollRand: the Value of RollResults; <<>> when the roll panics
RollRand(x, r) ==
    LET rr == RollResults(x, r)
    IN  [out |-> IF rr.out = <<>> THEN <<>> ELSE <<rr.out[1].Value>>,
         results |-> rr.out, r |-> rr.r, calls |-> rr.calls]

\* StdRand, the package's stdRand{}; script holds its coming outcomes
StdRand(script) == Rand("std", 0, script)

\* Dice.Roll: d.RollRand(StdRand)
Roll(x, script) == RollRand(x, StdRand(script))

\* ----------------------------------------------------------- the program

\* The state: args are the four values the caller works with in this run
\* (number, sides, droplow, drophigh) and d the *Dice it holds (<<>> is nil);
\* op names the last call; err, str, total and res are what that call
\* returned (error, string, *big.Int, *Results; <<>> when the call returns no
\* such value) and panicked whether it panicked; iter is the Value of the
\* caller's mockIterRand; rnd and calls are the source the last roll used and
\* the Intn calls it made; prev is the roll a replaying source repeats.

RollOps == {"RollResults", "RollRand", "Roll", "Replay"}

Init ==
    /\ args \in IntVals \X IntVals \X IntVals \X IntVals
    /\ d = <<>>
    /\ op = "Init"
    /\ err = <<>>
    /\ str = <<>>
    /\ total = <<>>
    /\ res = <<>>
    /\ panicked = FALSE
    /\ iter = 0
    /\ rnd = ""
    /\ calls = <<>>
    /\ prev = <<>>

\* what every call other than a roll leaves behind
NoRoll ==
    /\ total' = <<>>
    /\ res' = <<>>
    /\ panicked' = FALSE
    /\ rnd' = ""
    /\ calls' = <<>>
    /\ prev' = <<>>

\* d, err := New(num, sides), the call of a caller that drops no dice
DoNew ==
    /\ args[3] = 0
    /\ args[4] = 0
    /\ d' = New(args[1], args[2]).d
    /\ err' = New(args[1], args[2]).err
    /\ op' = "New"
    /\ str' = <<>>
    /\ NoRoll
    /\ UNCHANGED <<args, iter>>

\* d, err := NewExt(num, sides, droplow, drophigh)
DoNewExt ==
    /\ d' = NewExt(args[1], args[2], args[3], args[4]).d
    /\ err' = NewExt(args[1], args[2], args[3], args[4]).err
    /\ op' = "NewExt"
    /\ str' = <<>>
    /\ NoRoll
    /\ UNCHANGED <<args, iter>>

\* d := &Dice{...}: a Dice built without the constructors (a struct literal,
\* a deserialized value)
DoBuild ==
    /\ d' = <<Dice(args[1], args[2], args[3], args[4])>>
    /\ op' = "Build"
    /\ err' = <<>>
    /\ str' = <<>>
    /\ NoRoll
    /\ UNCHANGED <<args, iter>>

\* a variant of DoValidate that repairs negative drop counts in place
DoValidateClamping ==
    /\ d # <<>>
    /\ err' = Validate(d[1])
    /\ d' = <<[d[1] EXCEPT !.DropLow = IF @ < 0 THEN 0 ELSE @,
                           !.DropHigh = IF @ < 0 THEN 0 ELSE @]>>
    /\ op' = "Validate"
    /\ str' = <<>>
    /\ NoRoll
    /\ UNCHANGED <<args, iter>>

\* err := d.Validate()
DoValidate ==
    /\ d # <<>>
    /\ err' = Validate(d[1])
    /\ op' = "Validate"
    /\ str' = <<>>
    /\ NoRoll
    /\ UNCHANGED <<d, args, iter>>

\* str := d.String()
DoString ==
    /\ d # <<>>
    /\ str' = String(d[1])
    /\ op' = "String"
    /\ err' = <<>>
    /\ NoRoll
    /\ UNCHANGED <<d, args, iter>>

\* A roll is made on a Dice that Validate accepts (RollResults assumes a
\* valid instance), of at most MaxRoll dice.
CanRoll ==
    /\ d # <<>>
    /\ Validate(d[1]) = <<>>
    /\ d[1].Number <= MaxRoll

\* the sources a roll can be given: a mockMaxRand, the caller's mockIterRand
\* (&mockIterRand{} at first; while its counter stays within MaxValue), or an
\* unpredictable source with any outcomes in [0, Sides)
Sources ==
    {Rand("max", 0, <<>>)}
        \cup (IF iter + d[1].Number <= MaxValue THEN {Rand("iter", iter, <<>>)} ELSE {})
        \cup {StdRand(sc) : sc \in [1 .. d[1].Number -> StdOutcomes(d[1].Sides)]}

\* the state after  results := d.RollResults(r)
RollResultsStep(r) ==
    /\ \E rr \in {RollResults(d[1], r)} :
           /\ res' = rr.out
           /\ panicked' = (rr.out = <<>>)
           /\ calls' = rr.calls
           /\ iter' = IF r.kind = "iter" THEN rr.r.Value ELSE iter
    /\ total' = <<>>
    /\ rnd' = r.kind
    /\ op' = "RollResults"
    /\ err' = <<>>
    /\ str' = <<>>
    /\ prev' = <<>>
    /\ UNCHANGED <<d, args>>

\* results := d.RollResults(r)
DoRollResults == CanRoll /\ \E r \in Sources : RollResultsStep(r)

\* the state after the call named name returned rr, the outcome of a
\* RollRand with a source of the given kind
TotalStep(name, kind, rr) ==
    /\ total' = rr.out
    /\ res' = rr.results
    /\ panicked' = (rr.out = <<>>)
    /\ calls' = rr.calls
    /\ iter' = IF kind = "iter" THEN rr.r.Value ELSE iter
    /\ rnd' = kind
    /\ op' = name
    /\ err' = <<>>
    /\ str' = <<>>
    /\ prev' = <<>>
    /\ UNCHANGED <<d, args>>

\* v := d.RollRand(r)
DoRollRand ==
    CanRoll /\ \E r \in Sources : TotalStep("RollRand", r.kind, RollRand(d[1], r))

\* v := d.Roll()
DoRoll ==
    CanRoll /\ \E sc \in [1 .. d[1].Number -> StdOutcomes(d[1].Sides)] :
                   TotalStep("Roll", "std", Roll(d[1], sc))

\* the permutations of 1 .. n
Perms(n) == {p \in [1 .. n -> 1 .. n] : \A i, j \in 1 .. n : p[i] = p[j] => i = j}

\* results := d.RollResults(r), right after a RollResults, with a source that
\* delivers the outcomes of that roll once more, in some order p
DoReplay ==
    /\ CanRoll
    /\ op = "RollResults"
    /\ \E p \in Perms(Len(calls)) :
       \E rr \in {RollResults(d[1], Rand("replay", 0,
                                 [i \in 1 .. Len(calls) |-> calls[p[i]].v]))} :
           /\ res' = rr.out
           /\ panicked' = (rr.out = <<>>)
           /\ calls' = rr.calls
    /\ prev' = <<[res |-> res, calls |-> calls]>>
    /\ total' = <<>>
    /\ rnd' = "replay"
    /\ op' = "Replay"
    /\ err' = <<>>
    /\ str' = <<>>
    /\ UNCHANGED <<d, args, iter>>

Next ==
    \/ DoNew
    \/ DoNewExt
    \/ DoBuild
    \/ DoValidate
    \/ DoString
    \/ DoRollResults
    \/ DoRollRand
    \/ DoRoll
    \/ DoReplay

Spec == Init /\ [][Next]_vars

\* ------------------------------------------------------------ properties

\* a valid specification, in true integers: count >= 1, sides >= 2,
\* dropLow >= 0, dropHigh >= 0 and dropLow + dropHigh < count
ValidSpec(x) ==
    /\ x.Number >= 1
    /\ x.Sides >= 2
    /\ x.DropLow >= 0
    /\ x.DropHigh >= 0
    /\ x.DropLow + x.DropHigh < x.Number

\* whether rule k of the validation order is violated by x
Violates(k, x) ==
    CASE k = 1 -> x.Number < 1
      [] k = 2 -> x.Sides <= 1
      [] k = 3 -> x.DropLow < 0
      [] k = 4 -> x.DropHigh < 0
      [] OTHER -> x.DropLow + x.DropHigh >= x.Number

\* the error of rule k with the offending value(s) of x
RuleError(k, x) ==
    CASE k = 1 -> ErrNumberTooLow(x.Number)
      [] k = 2 -> ErrSidesTooLow(x.Sides)
      [] k = 3 -> ErrDropLowTooLow(x.DropLow)
      [] k = 4 -> ErrDropHighTooLow(x.DropHigh)
      [] OTHER -> ErrTooManyDropped(x.DropLow, x.DropHigh, x.Number)

\* the error of the earliest violated rule, <<>> when no rule is violated
ExpectedError(x) ==
    LET bad == {k \in 1 .. 5 : Violates(k, x)}
    IN  IF bad = {} THEN <<>>
        ELSE RuleError(CHOOSE k \in bad : \A j \in bad : k <= j, x)

\* the Dice the last constructor call was given
ArgsDice == Dice(args[1], args[2], args[3], args[4])

Ascending(s) == \A i \in 1 .. (Len(s) - 1) : s[i] <= s[i + 1]

Occurrences(s, v) == Cardinality({i \in DOMAIN s : s[i] = v})

SameValues(s, t) ==
    /\ Len(s) = Len(t)
    /\ \A i \in DOMAIN s : Occurrences(s, s[i]) = Occurrences(t, s[i])

RECURSIVE SeqSum(_)
SeqSum(s) == IF s = <<>> THEN 0 ELSE Head(s) + SeqSum(Tail(s))

\* C1: New, NewExt and Validate report the first violated rule in the order
\* count < 1, sides <= 1, dropLow < 0, dropHigh < 0, dropLow + dropHigh >=
\* count, with the offending value(s) of that rule, and no error when no rule
\* is violated; Validate on a directly built Dice agrees with NewExt.
C1_FirstViolatedRuleReported ==
    /\ op \in {"New", "NewExt"} => err = ExpectedError(ArgsDice)
    /\ op = "Validate" => err = ExpectedError(d[1])

\* C2: NewExt returns a Dice exactly when the four values are valid, then
\* with exactly those fields and a nil error; otherwise it returns nil and an
\* error; New(count, sides) is NewExt(count, sides, 0, 0).
C2_ConstructsExactlyValidSpecs ==
    op \in {"New", "NewExt"} =>
        IF ValidSpec(ArgsDice)
        THEN d = <<ArgsDice>> /\ err = <<>>
        ELSE d = <<>> /\ err # <<>>

\* C3: a roll of a valid Dice returns Raw of length count, sorted ascending,
\* DroppedLow the first dropLow values, DroppedHigh the last dropHigh values,
\* Kept the count - dropLow - dropHigh values between, the three
\* concatenating to Raw; a zero drop count gives an empty dropped slice.
C3_RollPartitionsSortedRaw ==
    (op \in RollOps /\ ValidSpec(d[1])) =>
        /\ ~ panicked
        /\ res # <<>>
        /\ LET x == d[1]
               R == res[1]
           IN  /\ Len(R.Raw) = x.Number
               /\ Ascending(R.Raw)
               /\ Len(R.DroppedLow) = x.DropLow
               /\ \A i \in 1 .. x.DropLow : R.DroppedLow[i] = R.Raw[i]
               /\ Len(R.DroppedHigh) = x.DropHigh
               /\ \A i \in 1 .. x.DropHigh :
                      R.DroppedHigh[i] = R.Raw[x.Number - x.DropHigh + i]
               /\ Len(R.Kept) = x.Number - x.DropLow - x.DropHigh
               /\ R.DroppedLow \o R.Kept \o R.DroppedHigh = R.Raw
               /\ x.DropLow = 0 => R.DroppedLow = <<>>
               /\ x.DropHigh = 0 => R.DroppedHigh = <<>>
               /\ (x.DropLow = 0 /\ x.DropHigh = 0) => R.Kept = R.Raw

\* a roll of a valid Dice that drops low and high dice, whose draws were not
\* in ascending order and not all equal
C3_Witness ==
    /\ op = "RollResults"
    /\ ValidSpec(d[1])
    /\ d[1].DropLow > 0
    /\ d[1].DropHigh > 0
    /\ res # <<>>
    /\ ~ Ascending([i \in DOMAIN calls |-> calls[i].v])
    /\ res[1].DroppedLow # res[1].DroppedHigh

\* C4: a Dice that Validate accepts satisfies dropLow + dropHigh < count in
\* true integers, and a roll on it does not panic: its slice bounds satisfy
\* 0 <= dropLow <= count - dropHigh <= count and Kept is not empty.
C4_ValidatedRollNeverPanics ==
    (op \in RollOps /\ Validate(d[1]) = <<>>) =>
        /\ d[1].DropLow + d[1].DropHigh < d[1].Number
        /\ 0 <= d[1].DropLow
        /\ d[1].DropLow <= d[1].Number - d[1].DropHigh
        /\ d[1].Number - d[1].DropHigh <= d[1].Number
        /\ ~ panicked
        /\ res # <<>>
        /\ Len(res[1].Kept) >= 1

\* C5: the Value of a roll of a valid Dice is the exact sum of Kept, RollRand
\* and Roll return that Value, it lies between the number of kept dice and
\* that number times sides, and a source that always returns n-1 gives
\* exactly that number times sides.
C5_TotalIsExactSumOfKept ==
    (op \in RollOps /\ ValidSpec(d[1])) =>
        /\ res # <<>>
        /\ LET x == d[1]
               R == res[1]
               k == x.Number - x.DropLow - x.DropHigh
           IN  /\ R.Value = SeqSum(R.Kept)
               /\ op \in {"RollRand", "Roll"} => total = <<SeqSum(R.Kept)>>
               /\ k <= R.Value
               /\ R.Value <= k * x.Sides
               /\ rnd = "max" => R.Value = k * x.Sides

\* a RollRand with the n-1 source whose total is beyond the machine integers
C5_Witness ==
    /\ op = "RollRand"
    /\ ValidSpec(d[1])
    /\ rnd = "max"
    /\ total # <<>>
    /\ total[1] > MaxInt
    /\ d[1].DropLow > 0

\* C6: every value of Raw, DroppedLow, Kept and DroppedHigh of a roll of a
\* valid Dice lies in 1 .. sides.
C6_FacesWithinSides ==
    (op \in RollOps /\ ValidSpec(d[1])) =>
        /\ res # <<>>
        /\ \A s \in {res[1].Raw, res[1].DroppedLow, res[1].Kept, res[1].DroppedHigh} :
               \A i \in DOMAIN s : 1 <= s[i] /\ s[i] <= d[1].Sides

\* a roll with the unpredictable source that shows both the face 1 and the
\* face sides
C6_Witness ==
    /\ op \in RollOps
    /\ ValidSpec(d[1])
    /\ rnd = "std"
    /\ res # <<>>
    /\ res[1].Raw[1] = 1
    /\ res[1].Raw[Len(res[1].Raw)] = d[1].Sides

\* C7: String yields count, "d", sides, then "L" and dropLow exactly when
\* dropLow > 0, then "H" and dropHigh exactly when dropHigh > 0.
C7_StringShape ==
    op = "String" =>
        str = FmtInt(d[1].Number) \o <<"d">> \o FmtInt(d[1].Sides)
                  \o (IF d[1].DropLow > 0 THEN <<"L">> \o FmtInt(d[1].DropLow)
                      ELSE <<>>)
                  \o (IF d[1].DropHigh > 0 THEN <<"H">> \o FmtInt(d[1].DropHigh)
                      ELSE <<>>)

\* String of a valid Dice with both suffixes
C7_Witness ==
    /\ op = "String"
    /\ ValidSpec(d[1])
    /\ d[1].DropLow > 0
    /\ d[1].DropHigh > 0
    /\ str = <<"3", "d", "2", "L", "1", "H", "1">>

\* what a roll step of a valid Dice does to the source
C8_Step ==
    (op' \in RollOps /\ ValidSpec(d'[1])) =>
        /\ Len(calls') = d'[1].Number
        /\ \A i \in DOMAIN calls' : calls'[i].n = d'[1].Sides
        /\ res' # <<>>
        /\ SameValues(res'[1].Raw, [i \in DOMAIN calls' |-> calls'[i].v + 1])
        /\ rnd' = "iter" =>
               /\ iter' = iter + d'[1].Number
               /\ \A i \in DOMAIN calls' :
                      calls'[i].v = (iter + i - 1) % d'[1].Sides
               /\ (iter = 0 /\ d'[1].Number <= d'[1].Sides) =>
                      res'[1].Raw = [i \in 1 .. d'[1].Number |-> i]

\* C8: one roll of a valid Dice calls Intn exactly count times, each time
\* with n = sides, and Raw holds the values drawn; a mockIterRand with
\* counter c has counter c + count afterwards and delivered c, c+1, ...
\* modulo sides, so from c = 0 with count <= sides Raw is 1, 2, ..., count,
\* and a second roll continues from c + count.
C8_DrawsCountTimes == [][C8_Step]_vars

\* a second roll with the same mockIterRand, which went on from the counter
\* the first roll left
C8_Witness ==
    /\ op \in RollOps
    /\ ValidSpec(d[1])
    /\ rnd = "iter"
    /\ d[1].Number > 1
    /\ iter = 2 * d[1].Number
    /\ calls[1].v = d[1].Number % d[1].Sides

\* C9: a roll of a valid Dice whose source delivers the draws of the roll
\* before it, in the same or in any other order, returns the same Results.
C9_RollDependsOnDrawnValuesOnly ==
    (op = "Replay" /\ ValidSpec(d[1])) => res = prev[1].res

\* a replayed roll whose draws came in another order than the first time
C9_Witness ==
    /\ op = "Replay"
    /\ ValidSpec(d[1])
    /\ res # <<>>
    /\ calls # prev[1].calls
    /\ d[1].DropLow > 0

\* what Validate, String and the rolls leave alone
C10_Step ==
    /\ op' \in ({"Validate", "String"} \cup RollOps) => d' = d
    /\ (op' = "Validate" /\ ValidSpec(d[1])) => err' = <<>>
    /\ (op' = "Validate" /\ op = "Validate") => err' = err

\* C10: Validate, String and the rolls never change the Dice, so a repeated
\* Validate returns the same outcome, never an error for a valid Dice.
C10_SpecNeverMutated == [][C10_Step]_vars

\* a Dice from NewExt that was rolled twice and is as it was built
C10_Witness ==
    /\ op \in RollOps
    /\ iter = 2 * d[1].Number
    /\ d = <<ArgsDice>>
    /\ ValidSpec(d[1])
    /\ d[1].DropHigh > 0

====
